---- MODULE Spec2Model ----
(***************************************************************************)
(* Hash-linked file ledger of app.py: the Block and Blockchain classes,    *)
(* the JSON persistence of the chain and the routes that drive them.       *)
(*                                                                         *)
(* SHA-256 over the canonical JSON encoding of a block's four hashed       *)
(* fields is modelled as the free (collision-free) constructor of those    *)
(* four fields: two digests are equal exactly when the hashed fields are.  *)
(* The sentinel string "0" is the one-element tuple Zero, which is the     *)
(* digest of no block.                                                     *)
(***************************************************************************)
EXTENDS Integers, Sequences, FiniteSets, TLC

VARIABLES chain, validation_errors, file, op, prev_op, ret, appends, scen, mutated,
          source, handlers, uploads

vars == <<chain, validation_errors, file, op, prev_op, ret, appends, scen, mutated,
          source, handlers, uploads>>

\* The request handlers in flight and the upload folder.
web == <<handlers, uploads>>

(* ------------------------------ bounds --------------------------------- *)

\* add_block calls in one run
MaxAppend == 2

MaxTime == 2

MaxFileLen == 2

Times == 1..MaxTime

(* ------------------------------ values --------------------------------- *)

Zero == <<"0">>

BadHash == <<"bad">>

GenesisData == [filename |-> "genesis", file_hash |-> "0"]

RecordA == [filename |-> "a.txt", file_hash |-> "abc123"]

RecordB == [filename |-> "b.txt", file_hash |-> "def456"]

Records == {RecordA, RecordB}

HashedFields == <<"index", "timestamp", "file_data", "previous_hash">>

Fields == HashedFields \o <<"hash">>

Range(s) == {s[j] : j \in DOMAIN s}

Return(v) == <<"return", v>>

ReturnBlock(b) == <<"return", "Block", b>>

Raise(e) == <<"raise", e>>

(* ------------------------------- Block --------------------------------- *)

calculate_hash(index, timestamp, file_data, previous_hash) ==
    <<index, timestamp, file_data, previous_hash>>

Block(index, timestamp, file_data, previous_hash) ==
    [index |-> index,
     timestamp |-> timestamp,
     file_data |-> file_data,
     previous_hash |-> previous_hash,
     hash |-> calculate_hash(index, timestamp, file_data, previous_hash)]

(* ----------------------------- Blockchain ------------------------------ *)

create_genesis_block(c, t) ==
    Append(c, Block(0, t, GenesisData, Zero))

get_latest_block(c) == c[Len(c)]

\* CheckBlock without the comparison of the stored hash with the recomputed
\* one.
CheckBlock_no_hash(c, i) ==
    LET current_block == c[i + 1]
        previous_block == c[i]
    IN  IF ~(Range(Fields) \subseteq DOMAIN current_block)
        THEN Raise("KeyError")
        ELSE IF "hash" \notin DOMAIN previous_block
        THEN Raise("KeyError")
        ELSE IF current_block.previous_hash # previous_block.hash
        THEN <<"Invalid previous hash reference in block", i>>
        ELSE IF current_block.index # i
        THEN <<"Non-sequential block index at position", i>>
        ELSE <<>>

\* The checks of is_chain_valid on block i with the link checked before
\* the hash.
CheckBlock_link_first(c, i) ==
    LET current_block == c[i + 1]
        previous_block == c[i]
    IN  IF ~(Range(Fields) \subseteq DOMAIN current_block)
        THEN Raise("KeyError")
        ELSE IF "hash" \notin DOMAIN previous_block
        THEN Raise("KeyError")
        ELSE IF current_block.previous_hash # previous_block.hash
        THEN <<"Invalid previous hash reference in block", i>>
        ELSE IF current_block.hash #
                calculate_hash(current_block.index, current_block.timestamp,
                               current_block.file_data,
                               current_block.previous_hash)
        THEN <<"Invalid hash for block", i>>
        ELSE IF current_block.index # i
        THEN <<"Non-sequential block index at position", i>>
        ELSE <<>>

\* Outcome of the checks of is_chain_valid on the block at position i
\* (0-based, i >= 1): <<>> when the block passes, the error message when a
\* check fails, Raise("KeyError") when a subscripted field is absent.
CheckBlock(c, i) ==
    LET current_block == c[i + 1]
        previous_block == c[i]
    IN  IF ~(Range(HashedFields) \subseteq DOMAIN current_block)
        THEN Raise("KeyError")
        ELSE IF "hash" \notin DOMAIN current_block
        THEN Raise("KeyError")
        ELSE IF current_block.hash #
                calculate_hash(current_block.index, current_block.timestamp,
                               current_block.file_data,
                               current_block.previous_hash)
        THEN <<"Invalid hash for block", i>>
        ELSE IF "hash" \notin DOMAIN previous_block
        THEN Raise("KeyError")
        ELSE IF current_block.previous_hash # previous_block.hash
        THEN <<"Invalid previous hash reference in block", i>>
        ELSE IF current_block.index # i
        THEN <<"Non-sequential block index at position", i>>
        ELSE <<>>

RECURSIVE CheckFrom(_, _)
CheckFrom(c, i) ==
    IF i >= Len(c)
    THEN [ret |-> Return("True"), errors |-> <<>>]
    ELSE LET r == CheckBlock(c, i)
         IN  IF r = <<>>
             THEN CheckFrom(c, i + 1)
             ELSE IF r = Raise("KeyError")
             THEN [ret |-> r, errors |-> <<>>]
             ELSE [ret |-> Return("False"), errors |-> <<r>>]

\* is_chain_valid comparing the stored hash of the genesis block with the
\* digest of its fields as well.
is_chain_valid_genesis_hash(c) ==
    IF Len(c) = 0
    THEN [ret |-> Return("False"), errors |-> << <<"Blockchain is empty">> >>]
    ELSE IF ~(Range(Fields) \subseteq DOMAIN c[1])
    THEN [ret |-> Raise("KeyError"), errors |-> <<>>]
    ELSE IF \/ c[1].index # 0
            \/ c[1].previous_hash # Zero
            \/ c[1].hash # calculate_hash(c[1].index, c[1].timestamp,
                                          c[1].file_data, c[1].previous_hash)
    THEN [ret |-> Return("False"), errors |-> << <<"Invalid genesis block">> >>]
    ELSE CheckFrom(c, 1)

\* The result of is_chain_valid on chain c: what it returns or raises, and
\* the validation_errors it leaves behind.
is_chain_valid(c) ==
    IF Len(c) = 0
    THEN [ret |-> Return("False"), errors |-> << <<"Blockchain is empty">> >>]
    ELSE IF "index" \notin DOMAIN c[1]
    THEN [ret |-> Raise("KeyError"), errors |-> <<>>]
    ELSE IF c[1].index # 0
    THEN [ret |-> Return("False"), errors |-> << <<"Invalid genesis block">> >>]
    ELSE IF "previous_hash" \notin DOMAIN c[1]
    THEN [ret |-> Raise("KeyError"), errors |-> <<>>]
    ELSE IF c[1].previous_hash # Zero
    THEN [ret |-> Return("False"), errors |-> << <<"Invalid genesis block">> >>]
    ELSE CheckFrom(c, 1)

Valid(c) == is_chain_valid(c).ret = Return("True")

\* The rebuild loop linking each new block to the hash stored in the block
\* before it in the chain under repair.
RECURSIVE RebuildFrom_stored_link(_, _, _)
RebuildFrom_stored_link(c, valid_chain, i) ==
    IF i >= Len(c)
    THEN valid_chain
    ELSE LET current_block == c[i + 1]
             previous_block == IF "hash" \in DOMAIN c[i]
                               THEN c[i]
                               ELSE valid_chain[Len(valid_chain)]
         IN  RebuildFrom_stored_link(c,
                         Append(valid_chain,
                                Block(i, current_block.timestamp,
                                      current_block.file_data,
                                      previous_block.hash)),
                         i + 1)

\* The rebuild loop keeping the index stored in each block.
RECURSIVE RebuildFrom_stored_index(_, _, _)
RebuildFrom_stored_index(c, valid_chain, i) ==
    IF i >= Len(c)
    THEN valid_chain
    ELSE LET current_block == c[i + 1]
             previous_block == valid_chain[Len(valid_chain)]
         IN  RebuildFrom_stored_index(c,
                         Append(valid_chain,
                                Block(IF "index" \in DOMAIN current_block
                                      THEN current_block.index
                                      ELSE i,
                                      current_block.timestamp,
                                      current_block.file_data,
                                      previous_block.hash)),
                         i + 1)

RECURSIVE RebuildFrom(_, _, _)
RebuildFrom(c, valid_chain, i) ==
    IF i >= Len(c)
    THEN valid_chain
    ELSE LET current_block == c[i + 1]
             previous_block == valid_chain[Len(valid_chain)]
         IN  RebuildFrom(c,
                         Append(valid_chain,
                                Block(i, current_block.timestamp,
                                      current_block.file_data,
                                      previous_block.hash)),
                         i + 1)

\* repair_chain subscripts timestamp and file_data of every block after the
\* first and the hash of the block kept at position 0.
RepairRaises(c) ==
    /\ Len(c) > 1
    /\ \/ "hash" \notin DOMAIN c[1]
       \/ \E j \in 2..Len(c) : ~({"timestamp", "file_data"} \subseteq DOMAIN c[j])

\* repair_chain with a rebuild loop that stops one block early.
repair_chain_short(c, t) ==
    IF Len(c) <= 1
    THEN create_genesis_block(<<>>, t)
    ELSE IF RepairRaises(c)
    THEN c
    ELSE RebuildFrom(SubSeq(c, 1, Len(c) - 1), <<c[1]>>, 1)

\* The chain repair_chain leaves behind, t being the clock reading.
repair_chain(c, t) ==
    IF Len(c) <= 1
    THEN create_genesis_block(<<>>, t)
    ELSE IF RepairRaises(c)
    THEN c
    ELSE RebuildFrom(c, <<c[1]>>, 1)

(* ---------------------------- persistence ------------------------------ *)

NoFile == [kind |-> "missing"]

\* source when the last call was not load_from_file.
NoSource == [kind |-> "none"]

Unparsable == [kind |-> "garbage"]

\* A JSON object is the sequence of its members; a member is <<key, value>>.
json_object(d, order) ==
    LET keys == SelectSeq(order, LAMBDA k : k \in DOMAIN d)
    IN  [j \in 1..Len(keys) |->
            <<keys[j],
              IF keys[j] = "file_data"
              THEN <<<<"filename", d[keys[j]].filename>>,
                     <<"file_hash", d[keys[j]].file_hash>>>>
              ELSE d[keys[j]]>>]

json_dump(c) == [j \in 1..Len(c) |-> json_object(c[j], Fields)]

Member(obj, k) == obj[CHOOSE j \in DOMAIN obj : obj[j][1] = k][2]

json_dict(obj) ==
    [k \in {obj[j][1] : j \in DOMAIN obj} |->
        IF k = "file_data"
        THEN [filename |-> Member(Member(obj, k), "filename"),
              file_hash |-> Member(Member(obj, k), "file_hash")]
        ELSE Member(obj, k)]

json_load(doc) == [j \in 1..Len(doc) |-> json_dict(doc[j])]

Written(c) == [kind |-> "json", doc |-> json_dump(c)]

\* load_from_file keeping the chain in memory when the file does not parse.
load_from_file_keeps(c, f, errs, t) ==
    IF f.kind = "missing"
    THEN [chain |-> create_genesis_block(c, t),
          file |-> Written(create_genesis_block(c, t)),
          errors |-> errs]
    ELSE IF f.kind = "garbage"
    THEN [chain |-> create_genesis_block(c, t),
          file |-> Written(create_genesis_block(c, t)),
          errors |-> errs]
    ELSE IF is_chain_valid(json_load(f.doc)).ret = Raise("KeyError")
    THEN [chain |-> create_genesis_block(<<>>, t),
          file |-> Written(create_genesis_block(<<>>, t)),
          errors |-> <<>>]
    ELSE [chain |-> json_load(f.doc),
          file |-> f,
          errors |-> is_chain_valid(json_load(f.doc)).errors]

\* load_from_file resetting the ledger when the loaded chain does not validate.
load_from_file_resets(c, f, errs, t) ==
    IF f.kind = "missing"
    THEN [chain |-> create_genesis_block(c, t),
          file |-> Written(create_genesis_block(c, t)),
          errors |-> errs]
    ELSE IF f.kind = "garbage"
    THEN [chain |-> create_genesis_block(<<>>, t),
          file |-> Written(create_genesis_block(<<>>, t)),
          errors |-> errs]
    ELSE IF is_chain_valid(json_load(f.doc)).ret # Return("True")
    THEN [chain |-> create_genesis_block(<<>>, t),
          file |-> Written(create_genesis_block(<<>>, t)),
          errors |-> is_chain_valid(json_load(f.doc)).errors]
    ELSE [chain |-> json_load(f.doc),
          file |-> f,
          errors |-> is_chain_valid(json_load(f.doc)).errors]

\* load_from_file repairing a loaded chain that does not validate.
load_from_file_repairs(c, f, errs, t) ==
    IF f.kind = "missing"
    THEN [chain |-> create_genesis_block(c, t),
          file |-> Written(create_genesis_block(c, t)),
          errors |-> errs]
    ELSE IF f.kind = "garbage"
    THEN [chain |-> create_genesis_block(<<>>, t),
          file |-> Written(create_genesis_block(<<>>, t)),
          errors |-> errs]
    ELSE IF is_chain_valid(json_load(f.doc)).ret = Raise("KeyError")
    THEN [chain |-> create_genesis_block(<<>>, t),
          file |-> Written(create_genesis_block(<<>>, t)),
          errors |-> <<>>]
    ELSE [chain |-> IF Valid(json_load(f.doc))
                    THEN json_load(f.doc)
                    ELSE repair_chain(json_load(f.doc), t),
          file |-> f,
          errors |-> is_chain_valid(json_load(f.doc)).errors]

\* The state load_from_file leaves behind: chain, file and validation_errors.
load_from_file(c, f, errs, t) ==
    IF f.kind = "missing"
    THEN [chain |-> create_genesis_block(c, t),
          file |-> Written(create_genesis_block(c, t)),
          errors |-> errs]
    ELSE IF f.kind = "garbage"
    THEN [chain |-> create_genesis_block(<<>>, t),
          file |-> Written(create_genesis_block(<<>>, t)),
          errors |-> errs]
    ELSE IF is_chain_valid(json_load(f.doc)).ret = Raise("KeyError")
    THEN [chain |-> create_genesis_block(<<>>, t),
          file |-> Written(create_genesis_block(<<>>, t)),
          errors |-> <<>>]
    ELSE [chain |-> json_load(f.doc),
          file |-> f,
          errors |-> is_chain_valid(json_load(f.doc)).errors]

(* ------------------- files found at start-up --------------------------- *)

\* add_block repairing the chain it has extended.
add_block_repairs(c, file_data, t) ==
    repair_chain(Append(c, Block(Len(c), t, file_data, get_latest_block(c).hash)), t)

\* add_block linking the new block to the tail's previous_hash.
add_block_stale_link(c, file_data, t) ==
    Append(c, Block(Len(c), t, file_data, get_latest_block(c).previous_hash))

\* add_block numbering the new block one past the length of the chain.
add_block_index_off(c, file_data, t) ==
    Append(c, Block(Len(c) + 1, t, file_data, get_latest_block(c).hash))

\* The chain add_block leaves behind when it returns.
add_block(c, file_data, t) ==
    Append(c, Block(Len(c), t, file_data, get_latest_block(c).hash))

\* The chain of n blocks a run that uploaded a.txt n-1 times has saved.
RECURSIVE BuiltChain(_)
BuiltChain(n) ==
    IF n = 1
    THEN create_genesis_block(<<>>, 1)
    ELSE add_block(BuiltChain(n - 1), RecordA, 1)

SetField(c, i, f, v) == [c EXCEPT ![i] = [@ EXCEPT ![f] = v]]

DropField(c, i, f) ==
    [c EXCEPT ![i] = [k \in DOMAIN @ \ {f} |-> @[k]]]

Rehash(c, i) ==
    LET b == c[i]
    IN  [c EXCEPT ![i] = [b EXCEPT !.hash =
            calculate_hash(b.index, b.timestamp, b.file_data, b.previous_hash)]]

\* A value an edit of the file can give to field f of block i of chain c,
\* different from the one it holds.
OtherValues(c, i, f) ==
    CASE f = "index" -> {c[i].index + 1}
      [] f = "timestamp" -> {c[i].timestamp + 1}
      [] f = "file_data" -> {IF c[i].file_data = RecordA THEN RecordB ELSE RecordA}
      [] f = "previous_hash" -> {Zero, BadHash} \ {c[i].previous_hash}
      [] f = "hash" -> {BadHash}

\* A saved chain after one edit of the file: one field of one block removed
\* or changed, and for index and previous_hash also changed with the block's
\* hash recomputed to match.
EditedChains(c) ==
    UNION {UNION {
        {SetField(c, i, f, v) : v \in OtherValues(c, i, f)}
        \cup {Rehash(SetField(c, i, f, v), i) :
                v \in IF f \in {"index", "previous_hash"}
                      THEN OtherValues(c, i, f) ELSE {}}
        \cup {DropField(c, i, f)}
        : f \in Range(Fields)} : i \in DOMAIN c}

SavedChains == {BuiltChain(n) : n \in 1..MaxFileLen}

\* What blockchain.json can hold when the program starts.
ExternalFiles ==
    {NoFile, Unparsable, Written(<<>>)}
    \cup {Written(c) : c \in SavedChains}
    \cup {Written(c) : c \in UNION {EditedChains(b) : b \in SavedChains}}

(* -------------------------- scenario monitor --------------------------- *)

\* Progress through the end-to-end scenario: no file, load, append a.txt,
\* append b.txt. -1 once the run has left the scenario.
ScenStep(s, call) ==
    IF s = 0 /\ call = <<"load_from_file">> THEN 1
    ELSE IF s = 1 /\ call = <<"add_block", RecordA>> THEN 2
    ELSE IF s = 2 /\ call = <<"add_block", RecordB>> THEN 3
    ELSE -1

\* Pairs of consecutive calls that the history variable prev_op records.
Pairs ==
    {<<"save_to_file", "load_from_file">>, <<"repair_chain", "repair_chain">>,
     <<"is_chain_valid", "repair_chain">>}

\* The call before call `new`, when the two form one of the Pairs.
Before(last, new) == IF <<last, new>> \in Pairs THEN last ELSE ""

(* ------------------------------ actions -------------------------------- *)

\* blockchain = Blockchain(), with whatever file is on disk.
Init ==
    /\ \E t \in Times : chain = create_genesis_block(<<>>, t)
    /\ validation_errors = <<>>
    /\ file \in ExternalFiles
    /\ op = "__init__"
    /\ prev_op = ""
    /\ ret = Return("None")
    /\ appends = 0
    /\ scen = IF file = NoFile THEN 0 ELSE -1
    /\ mutated = <<>>
    /\ source = NoSource
    /\ handlers = <<>>
    /\ uploads = <<>>

AddBlock(file_data, t) ==
    /\ appends < MaxAppend
    /\ appends' = appends + 1
    /\ IF Len(chain) = 0
       THEN /\ ret' = Raise("IndexError")
            /\ chain' = chain
       ELSE IF "hash" \notin DOMAIN get_latest_block(chain)
       THEN /\ ret' = Raise("KeyError")
            /\ chain' = chain
       ELSE /\ chain' = add_block(chain, file_data, t)
            /\ ret' = ReturnBlock(get_latest_block(chain'))
    /\ op' = "add_block"
    /\ prev_op' = Before(op, "add_block")
    /\ source' = NoSource
    /\ UNCHANGED web
    /\ scen' = ScenStep(scen, <<"add_block", file_data>>)
    /\ UNCHANGED <<validation_errors, file, mutated>>

IsChainValid ==
    /\ validation_errors' = is_chain_valid(chain).errors
    /\ ret' = is_chain_valid(chain).ret
    /\ op' = "is_chain_valid"
    /\ prev_op' = Before(op, "is_chain_valid")
    /\ source' = NoSource
    /\ UNCHANGED web
    /\ scen' = scen
    /\ UNCHANGED <<chain, file, appends, mutated>>

RepairChain(t) ==
    /\ chain' = repair_chain(chain, t)
    /\ ret' = IF RepairRaises(chain) THEN Raise("KeyError") ELSE Return("True")
    /\ op' = "repair_chain"
    /\ prev_op' = Before(op, "repair_chain")
    /\ source' = NoSource
    /\ UNCHANGED web
    /\ scen' = ScenStep(scen, <<"repair_chain">>)
    /\ UNCHANGED <<validation_errors, file, appends, mutated>>

SaveToFile ==
    /\ file' = Written(chain)
    /\ ret' = Return("None")
    /\ op' = "save_to_file"
    /\ prev_op' = Before(op, "save_to_file")
    /\ source' = NoSource
    /\ UNCHANGED web
    /\ scen' = ScenStep(scen, <<"save_to_file">>)
    /\ UNCHANGED <<chain, validation_errors, appends, mutated>>

LoadFromFile(t) ==
    /\ LET r == load_from_file(chain, file, validation_errors, t)
       IN  /\ chain' = r.chain
           /\ file' = r.file
           /\ validation_errors' = r.errors
    /\ ret' = Return("None")
    /\ op' = "load_from_file"
    /\ prev_op' = Before(op, "load_from_file")
    /\ source' = file
    /\ UNCHANGED web
    /\ scen' = ScenStep(scen, <<"load_from_file">>)
    /\ UNCHANGED <<appends, mutated>>

\* The /reset route.
ResetBlockchain(t) ==
    /\ chain' = create_genesis_block(<<>>, t)
    /\ file' = Written(chain')
    /\ ret' = Return("None")
    /\ op' = "reset_blockchain"
    /\ prev_op' = Before(op, "reset_blockchain")
    /\ source' = NoSource
    /\ UNCHANGED web
    /\ scen' = ScenStep(scen, <<"reset_blockchain">>)
    /\ UNCHANGED <<validation_errors, appends, mutated>>

\* blockchain.load_from_file(...) runs at import, before any route is served.
Loaded == op # "__init__"

Next ==
    \/ \E t \in Times : LoadFromFile(t)
    \/ Loaded /\ \E R \in Records, t \in Times : AddBlock(R, t)
    \/ Loaded /\ IsChainValid
    \/ Loaded /\ \E t \in Times : RepairChain(t)
    \/ Loaded /\ SaveToFile
    \/ Loaded /\ \E t \in Times : ResetBlockchain(t)

Spec == Init /\ [][Next]_vars

(* ------------------------- claims C1, C2, C3 --------------------------- *)

\* C1: after the end-to-end scenario (no persisted file, load, append a.txt,
\* append b.txt) validate() returns true, the chain has 3 blocks and
\* chain[2].previous_hash = chain[1].hash.
C1_EndToEnd ==
    scen = 3 =>
        /\ Valid(chain)
        /\ Len(chain) = 3
        /\ chain[3].previous_hash = chain[2].hash

\* C2: a load whose source does not exist leaves exactly one block in memory,
\* the genesis block, and the file it writes holds that one-block chain.
C2_LoadMissing ==
    scen = 1 =>
        /\ Len(chain) = 1
        /\ chain[1].index = 0
        /\ chain[1].previous_hash = Zero
        /\ chain[1].file_data = GenesisData
        /\ file = Written(chain)

\* C3: the chain always has at least one block.
C3_NeverEmpty == Len(chain) >= 1

(* ---------------------------- claims C5, C6 ---------------------------- *)

StructuralErrors ==
    {"Invalid genesis block", "Invalid hash for block",
     "Invalid previous hash reference in block",
     "Non-sequential block index at position"}

FailsStructurally(c) ==
    /\ is_chain_valid(c).ret = Return("False")
    /\ is_chain_valid(c).errors[1][1] \in StructuralErrors

\* C5: on any chain on which validate() fails with a malformed genesis, a
\* hash mismatch, a broken link or a non-sequential index, repair() returns
\* true and validate() right after it returns true.
C5_RepairRecovers ==
    [][(op' = "repair_chain" /\ FailsStructurally(chain))
        => (ret' = Return("True") /\ Valid(chain'))]_vars

\* C6: append(R) on a non-empty chain of length N with tail T returns the new
\* block; the chain then has N+1 blocks, the new tail has index N, record R
\* and previous_hash T.hash, and blocks 0..N-1 are unchanged.
C6_AppendMonotone ==
    [][\A R \in Records, t \in Times :
        (/\ AddBlock(R, t)
         /\ Len(chain) >= 1
         /\ "hash" \in DOMAIN get_latest_block(chain))
        => /\ Len(chain') = Len(chain) + 1
           /\ ret' = ReturnBlock(chain'[Len(chain')])
           /\ chain'[Len(chain')].index = Len(chain)
           /\ chain'[Len(chain')].file_data = R
           /\ chain'[Len(chain')].previous_hash = chain[Len(chain)].hash
           /\ SubSeq(chain', 1, Len(chain)) = chain]_vars

\* An append has returned on a loaded chain that does not validate.
C6_Witness ==
    /\ op = "add_block"
    /\ ret = ReturnBlock(get_latest_block(chain))
    /\ Len(chain) >= 3
    /\ ~Valid(chain)

(* ------------------ a fresh ledger that is only appended to ------------ *)

InitFresh ==
    /\ \E t \in Times : chain = create_genesis_block(<<>>, t)
    /\ validation_errors = <<>>
    /\ file = NoFile
    /\ op = "__init__"
    /\ prev_op = ""
    /\ ret = Return("None")
    /\ appends = 0
    /\ scen = -1
    /\ mutated = <<>>
    /\ source = NoSource
    /\ handlers = <<>>
    /\ uploads = <<>>

NextFresh ==
    \/ \E R \in Records, t \in Times : AddBlock(R, t)
    \/ IsChainValid
    \/ SaveToFile

SpecFresh == InitFresh /\ [][NextFresh]_vars

\* C7: a freshly constructed ledger has chain[0].index = 0 and
\* chain[0].previous_hash = "0" and validates, and it still validates after
\* any sequence of appends.
C7_GenesisInvariant ==
    /\ chain[1].index = 0
    /\ chain[1].previous_hash = Zero
    /\ Valid(chain)
    /\ op = "is_chain_valid" =>
         (ret = Return("True") /\ validation_errors = <<>>)

\* validate() has returned after the appends of the run.
C7_Witness ==
    /\ op = "is_chain_valid"
    /\ ret = Return("True")
    /\ Len(chain) >= 3

(* --------------- one field of one block changed in memory -------------- *)

\* Chains that validate: a constructed ledger, or one loaded from a file.
ValidStarts ==
    {create_genesis_block(<<>>, t) : t \in Times}
    \cup {c \in {json_load(f.doc) : f \in {g \in ExternalFiles : g.kind = "json"}} :
            Valid(c)}

HashesOf(c) == {c[j].hash : j \in {k \in DOMAIN c : "hash" \in DOMAIN c[k]}}

\* Values that field f of block i can be overwritten with.
TamperValues(c, i, f) ==
    (CASE f = "index" -> {0, c[i].index + 1}
       [] f = "timestamp" -> {c[i].timestamp + 1}
       [] f = "file_data" -> {GenesisData} \cup Records
       [] f = "previous_hash" -> {Zero, BadHash} \cup HashesOf(c)
       [] f = "hash" -> {Zero, BadHash} \cup HashesOf(c)) \ {c[i][f]}

InitTamper ==
    /\ chain \in ValidStarts
    /\ validation_errors = <<>>
    /\ file = NoFile
    /\ op = "__init__"
    /\ prev_op = ""
    /\ ret = Return("None")
    /\ appends = 0
    /\ scen = -1
    /\ mutated = <<>>
    /\ source = NoSource
    /\ handlers = <<>>
    /\ uploads = <<>>

\* chain[i-1][f] = v on a chain that validates; mutated keeps the position
\* and the field.
TamperField(i, f, v) ==
    /\ mutated = <<>>
    /\ Valid(chain)
    /\ chain' = SetField(chain, i, f, v)
    /\ mutated' = <<i - 1, f>>
    /\ op' = "tamper"
    /\ prev_op' = ""
    /\ source' = NoSource
    /\ UNCHANGED web
    /\ UNCHANGED <<validation_errors, file, ret, appends, scen>>

NextTamper ==
    \/ mutated = <<>> /\ \E R \in Records, t \in Times : AddBlock(R, t)
    \/ \E i \in DOMAIN chain : \E f \in DOMAIN chain[i] :
            \E v \in TamperValues(chain, i, f) : TamperField(i, f, v)
    \/ IsChainValid

SpecTamper == InitTamper /\ [][NextTamper]_vars

\* C4: on a valid chain of at least 3 blocks, changing only the record, the
\* index, the previous_hash or the hash of a non-genesis block i makes
\* validate() return false with one error, which names position i.
C4_TamperDetected ==
    (/\ mutated # <<>>
     /\ mutated[1] >= 1
     /\ mutated[2] \in {"file_data", "index", "previous_hash", "hash"}
     /\ Len(chain) >= 3)
    => /\ is_chain_valid(chain).ret = Return("False")
       /\ Len(is_chain_valid(chain).errors) = 1
       /\ is_chain_valid(chain).errors[1][2] = mutated[1]
       /\ op = "is_chain_valid" =>
            /\ ret = Return("False")
            /\ validation_errors = is_chain_valid(chain).errors

\* validate() has run after the stored hash of the last of three blocks was
\* overwritten.
C4_Witness ==
    /\ op = "is_chain_valid"
    /\ mutated = <<2, "hash">>
    /\ Len(chain) = 3
    /\ ret = Return("False")

(* -------------------------- claims C8, C9, C10 ------------------------- *)

Restrict(b, S) == [k \in DOMAIN b \cap S |-> b[k]]

LinkFields == {"index", "file_data", "previous_hash", "hash"}

\* The record held at each position, <<>> where a block holds none.
RecordsOf(c) ==
    [j \in DOMAIN c |->
        IF "file_data" \in DOMAIN c[j] THEN <<c[j].file_data>> ELSE <<>>]

\* C8 as stated: a second repair() in a row leaves the length and, at every
\* position, index, record, previous_hash and hash as the first one left
\* them; only the timestamp of a freshly created genesis may differ.
C8_RepairTwice ==
    [][(op = "repair_chain" /\ op' = "repair_chain")
        => /\ Len(chain') = Len(chain)
           /\ \A j \in DOMAIN chain :
                Restrict(chain'[j], LinkFields) = Restrict(chain[j], LinkFields)
           /\ Len(chain) > 1 => chain' = chain]_vars

\* C8 amended: a second repair() in a row leaves a chain of two or more
\* blocks exactly as the first one left it; on a chain of at most one block
\* both leave a single fresh genesis block, equal in index, record and
\* previous_hash, whose hash is the digest of its own fields and so differs
\* with its timestamp.
C8_RepairTwiceAmended ==
    [][(op = "repair_chain" /\ op' = "repair_chain")
        => IF Len(chain) > 1
           THEN chain' = chain
           ELSE /\ Len(chain') = 1
                /\ Len(chain) = 1
                /\ Restrict(chain'[1], {"index", "file_data", "previous_hash"})
                     = Restrict(chain[1], {"index", "file_data", "previous_hash"})
                /\ chain'[1].hash =
                     calculate_hash(0, chain'[1].timestamp, GenesisData, Zero)
                /\ chain[1].hash =
                     calculate_hash(0, chain[1].timestamp, GenesisData, Zero)]_vars

\* repair() has returned twice in a row on a chain of three blocks.
C8_Witness ==
    /\ op = "repair_chain"
    /\ prev_op = "repair_chain"
    /\ ret = Return("True")
    /\ Len(chain) >= 3

\* C9 as stated: repair() on a chain that validates leaves a chain that
\* validates, of the same length, with the same records in the same order.
C9_RepairValid ==
    [][(op' = "repair_chain" /\ Valid(chain))
        => /\ Valid(chain')
           /\ Len(chain') = Len(chain)
           /\ RecordsOf(chain') = RecordsOf(chain)]_vars

\* C9 amended: repair() on a chain that validates leaves a chain that
\* validates, of the same length; the records are the same in the same order
\* when the chain has two or more blocks, and a single block is replaced by a
\* fresh genesis block holding the genesis record.
C9_RepairValidAmended ==
    [][(op' = "repair_chain" /\ Valid(chain))
        => /\ ret' = Return("True")
           /\ Valid(chain')
           /\ Len(chain') = Len(chain)
           /\ Len(chain) > 1 => RecordsOf(chain') = RecordsOf(chain)
           /\ Len(chain) = 1 => RecordsOf(chain') = <<<<GenesisData>>>>]_vars

\* repair() has returned right after validate() returned true on a chain of
\* three blocks.
C9_Witness ==
    /\ op = "repair_chain"
    /\ prev_op = "is_chain_valid"
    /\ validation_errors = <<>>
    /\ Valid(chain)
    /\ Len(chain) >= 3

\* C10: save followed by load leaves a chain of the same length whose blocks
\* have, position by position, the same index, timestamp, record,
\* previous_hash and hash, whether or not the chain validates.
C10_RoundTrip ==
    [][(op = "save_to_file" /\ op' = "load_from_file")
        => /\ Len(chain') = Len(chain)
           /\ \A j \in DOMAIN chain : chain'[j] = chain[j]]_vars

\* load has returned right after save on a chain that does not validate.
C10_Witness ==
    /\ op = "load_from_file"
    /\ prev_op = "save_to_file"
    /\ Len(chain) >= 2
    /\ ~Valid(chain)

(* ------------------------------- C11 ----------------------------------- *)

\* A chain that holds exactly one block, a genesis block.
OnlyGenesis(c) ==
    /\ Len(c) = 1
    /\ \E t \in Times : c = create_genesis_block(<<>>, t)

\* C11: load_from_file on an existing file that does not parse as JSON
\* leaves the chain with exactly one block, a genesis block, and overwrites
\* the file with that one-block chain.
C11_CorruptLoad ==
    [][(op' = "load_from_file" /\ file = Unparsable)
          => /\ OnlyGenesis(chain')
             /\ file' = Written(chain')
             /\ json_load(file'.doc) = chain']_vars

C11_Witness ==
    /\ op = "load_from_file"
    /\ source = Unparsable
    /\ OnlyGenesis(chain)
    /\ file.kind = "json"
    /\ Len(file.doc) = 1

(* ------------------------------- C12 ----------------------------------- *)

\* Some block of c lacks one of the five fields of a block.
Malformed(c) == \E i \in 1..Len(c) : ~(Range(Fields) \subseteq DOMAIN c[i])

\* C12: load_from_file on a file that parses but in which some block lacks
\* index, timestamp, file_data, previous_hash or hash discards the content,
\* leaves one genesis block in memory and writes that chain to the file,
\* whichever block and whichever field is missing.
C12_MalformedLoad ==
    [][(op' = "load_from_file" /\ file.kind = "json"
           /\ Malformed(json_load(file.doc)))
          => /\ OnlyGenesis(chain')
             /\ file' = Written(chain')]_vars

(* ------------------------------- C14 ----------------------------------- *)

\* C14: when the file parses, is_chain_valid reads no missing field and
\* returns False on the loaded chain, load_from_file leaves the chain in
\* memory equal to the content of the file, block for block, with the error
\* recorded, and does not write the file.
C14_LoadKeepsInvalid ==
    [][(op' = "load_from_file" /\ file.kind = "json"
           /\ is_chain_valid(json_load(file.doc)).ret = Return("False"))
          => /\ chain' = json_load(file.doc)
             /\ json_dump(chain') = file.doc
             /\ file' = file
             /\ Len(validation_errors') = 1
             /\ is_chain_valid(chain').ret = Return("False")]_vars

C14_Witness ==
    /\ op = "load_from_file"
    /\ source.kind = "json"
    /\ is_chain_valid(json_load(source.doc)).ret = Return("False")
    /\ json_dump(chain) = source.doc
    /\ file = source
    /\ Len(chain) >= 2

(* ------------------------------- C13 ----------------------------------- *)

\* Longest chain of the family below.
MaxAnyLen == 3

\* The blocks a file can hold at position i (0-based) behind the blocks c:
\* every field present, each of index, previous_hash and hash either as
\* add_block would have written it or not.
AnyBlocks(c, i) ==
    LET file_data == IF i = 0 THEN GenesisData ELSE RecordA
        links == IF i = 0 THEN {Zero, BadHash} ELSE {c[i].hash, Zero}
    IN  UNION {{Block(index, 1, file_data, previous_hash),
                [Block(index, 1, file_data, previous_hash)
                    EXCEPT !.hash = BadHash]} :
               index \in {i, i + 1}, previous_hash \in links}

RECURSIVE AnyChains(_)
AnyChains(n) ==
    IF n = 0
    THEN {<<>>}
    ELSE AnyChains(n - 1)
         \cup UNION {{Append(c, b) : b \in AnyBlocks(c, n - 1)} :
                     c \in {d \in AnyChains(n - 1) : Len(d) = n - 1}}

\* The ledger after load_from_file has read a file holding one of the
\* chains above: no field is missing, so the chain is kept as parsed.
InitValidate ==
    /\ chain \in AnyChains(MaxAnyLen)
    /\ validation_errors = is_chain_valid(chain).errors
    /\ file = Written(chain)
    /\ op = "load_from_file"
    /\ prev_op = ""
    /\ ret = Return("None")
    /\ appends = 0
    /\ scen = -1
    /\ mutated = <<>>
    /\ source = file
    /\ handlers = <<>>
    /\ uploads = <<>>

NextValidate ==
    \/ IsChainValid
    \/ \E t \in Times : RepairChain(t)

SpecValidate == InitValidate /\ [][NextValidate]_vars

\* Every check of is_chain_valid that chain c fails, as
\* <<position, rank of the check within the position, message>>.
Failures(c) ==
    (IF Len(c) = 0 THEN {<<0, 0, <<"Blockchain is empty">>>>} ELSE {})
    \cup (IF Len(c) > 0 /\ (c[1].index # 0 \/ c[1].previous_hash # Zero)
          THEN {<<0, 1, <<"Invalid genesis block">>>>} ELSE {})
    \cup {<<i, 1, <<"Invalid hash for block", i>>>> :
            i \in {j \in 1..(Len(c) - 1) :
                     c[j + 1].hash # calculate_hash(c[j + 1].index,
                                                    c[j + 1].timestamp,
                                                    c[j + 1].file_data,
                                                    c[j + 1].previous_hash)}}
    \cup {<<i, 2, <<"Invalid previous hash reference in block", i>>>> :
            i \in {j \in 1..(Len(c) - 1) : c[j + 1].previous_hash # c[j].hash}}
    \cup {<<i, 3, <<"Non-sequential block index at position", i>>>> :
            i \in {j \in 1..(Len(c) - 1) : c[j + 1].index # j}}

\* The failure met first: lowest position, then lowest rank.
FirstFailure(F) ==
    CHOOSE f \in F :
        \A g \in F : f[1] < g[1] \/ (f[1] = g[1] /\ f[2] <= g[2])

\* C13: is_chain_valid returns True with no recorded error only when no
\* check fails on any block; otherwise it returns False and records exactly
\* one error, that of the first failing check in the order empty chain,
\* genesis block, then for ascending i hash mismatch, broken link,
\* non-sequential index; no error of an earlier call remains.
C13_FailFast ==
    op = "is_chain_valid"
        => IF Failures(chain) = {}
           THEN /\ ret = Return("True")
                /\ validation_errors = <<>>
           ELSE /\ ret = Return("False")
                /\ validation_errors = <<FirstFailure(Failures(chain))[3]>>

C13_Witness ==
    /\ op = "is_chain_valid"
    /\ ret = Return("False")
    /\ Len(validation_errors) = 1
    /\ \E f, g, h \in Failures(chain) :
          /\ f = FirstFailure(Failures(chain))
          /\ g[1] = f[1] /\ g[2] > f[2]
          /\ h[1] > f[1]

(* ------------------------------- C16 ----------------------------------- *)

\* Block b has every field and its stored hash is the digest of the others.
SelfHashed(b) ==
    /\ Range(Fields) \subseteq DOMAIN b
    /\ b.hash = calculate_hash(b.index, b.timestamp, b.file_data,
                               b.previous_hash)

\* Blocks a and b agree on timestamp and record.
SameRecord(a, b) ==
    \A f \in {"timestamp", "file_data"} :
        /\ f \in DOMAIN a <=> f \in DOMAIN b
        /\ f \in DOMAIN a => a[f] = b[f]

\* Every block of c behind the first has its position as index and the
\* stored hash of the block before it as previous_hash.
Relinked(c) ==
    \A p \in 2..Len(c) :
        /\ c[p].index = p - 1
        /\ c[p].previous_hash = c[p - 1].hash

C17_NeverSilent ==
    [][is_chain_valid(chain).ret = Return("False")
          => /\ op' \in {"add_block", "is_chain_valid", "save_to_file"}
                   => is_chain_valid(chain') = is_chain_valid(chain)
             /\ Valid(chain') => op' = "repair_chain"]_vars

\* C17 (amended): once is_chain_valid returns False on the chain in memory,
\* add_block, is_chain_valid and save_to_file leave it returning False with
\* the same first error; a chain on which it returns True comes back only
\* through repair_chain, the reset route or load_from_file.
C17_NeverSilentAmended ==
    [][is_chain_valid(chain).ret = Return("False")
          => /\ op' \in {"add_block", "is_chain_valid", "save_to_file"}
                   => is_chain_valid(chain') = is_chain_valid(chain)
             /\ Valid(chain') => op' \in {"repair_chain", "reset_blockchain",
                                          "load_from_file"}]_vars

\* add_block has extended a chain that does not validate, and the first
\* error is the one of the chain before the call.
C17_Witness ==
    /\ op = "add_block"
    /\ ret[1] = "return"
    /\ Len(chain) >= 3
    /\ is_chain_valid(chain).ret = Return("False")
    /\ is_chain_valid(SubSeq(chain, 1, Len(chain) - 1)) = is_chain_valid(chain)

(* ------------------------------- C20 ----------------------------------- *)

\* C20: is_chain_valid reads only index and previous_hash of the genesis
\* block: on a valid chain, overwriting the record or the timestamp of the
\* genesis block while its stored hash stays leaves is_chain_valid returning
\* True, and the stored hash of the genesis block is never compared with a
\* digest: overwriting it is reported, if at all, as a broken link of block 1.
C20_GenesisUnchecked ==
    /\ (/\ mutated # <<>>
        /\ mutated[1] = 0
        /\ mutated[2] \in {"file_data", "timestamp"})
       => /\ is_chain_valid(chain) = [ret |-> Return("True"), errors |-> <<>>]
          /\ op = "is_chain_valid" => /\ ret = Return("True")
                                      /\ validation_errors = <<>>
    /\ mutated = <<0, "hash">>
       => is_chain_valid(chain) =
            IF Len(chain) = 1
            THEN [ret |-> Return("True"), errors |-> <<>>]
            ELSE [ret |-> Return("False"),
                  errors |-> << <<"Invalid previous hash reference in block", 1>> >>]

\* is_chain_valid has returned True on a chain of two or more blocks whose
\* genesis record was overwritten.
C20_Witness ==
    /\ op = "is_chain_valid"
    /\ mutated = <<0, "file_data">>
    /\ Len(chain) >= 2
    /\ Range(Fields) \subseteq DOMAIN chain[1]
    /\ chain[1].file_data # GenesisData
    /\ chain[1].hash = calculate_hash(0, chain[1].timestamp, GenesisData, Zero)
    /\ ret = Return("True")

(* ------------------------- the upload route ---------------------------- *)

\* Names and contents of the files users send; a content stands for its
\* SHA-256 digest, taken as collision-free.
Names == {"a.txt", "b.txt"}

Contents == {"abc123", "def456"}

\* UPLOAD_FOLDER without the file.
NoUpload == "none"

\* Flask serves requests in threads; two handlers are followed.
Handlers == {1, 2}

\* A handler with no request: the locals of upload_file and add_block, the
\* statement it is at, and how its request ended.  alone records that no
\* other handler was in flight during the request, start_valid that the
\* chain validated and its tail had a hash when the request began.
Idle ==
    [pc |-> "idle", filename |-> "", file_hash |-> "",
     previous_block |-> <<>>, new_block |-> <<>>,
     alone |-> TRUE, start_valid |-> TRUE, result |-> ""]

InFlight(h) == handlers[h].pc \notin {"idle", "done"}

\* upload_file always saving after its validation.
after_validate_always(valid) == "save_to_file"

\* upload_file never saving after its validation.
after_validate_never(valid) == "done"

\* The statement of upload_file that follows `if blockchain.is_chain_valid()`.
after_validate(valid) == IF valid THEN "save_to_file" ELSE "done"

\* handlers with handler h replaced by r.
Moved(h, r) == [k \in Handlers |-> IF k = h THEN r ELSE handlers[k]]

\* The variables no step of a route changes.
route_fixed == <<prev_op, scen, mutated>>

\* file.save(file_path): the request of handler h begins.
UploadSave(h, filename, content) ==
    /\ ~InFlight(h)
    /\ appends < MaxAppend
    /\ appends' = appends + 1
    /\ uploads' = [uploads EXCEPT ![filename] = content]
    /\ handlers' =
         [k \in Handlers |->
            IF k = h
            THEN [Idle EXCEPT !.pc = "calculate_file_hash",
                              !.filename = filename,
                              !.alone = \A j \in Handlers \ {h} : ~InFlight(j),
                              !.start_valid =
                                  /\ Valid(chain)
                                  /\ "hash" \in DOMAIN get_latest_block(chain)]
            ELSE IF InFlight(k)
            THEN [handlers[k] EXCEPT !.alone = FALSE]
            ELSE handlers[k]]
    /\ op' = "upload_file"
    /\ ret' = Return("None")
    /\ source' = NoSource
    /\ UNCHANGED <<chain, validation_errors, file>>
    /\ UNCHANGED route_fixed

\* file_hash = calculate_file_hash(file_path)
UploadHash(h) ==
    /\ handlers[h].pc = "calculate_file_hash"
    /\ handlers' = Moved(h, [handlers[h] EXCEPT
                               !.pc = "get_latest_block",
                               !.file_hash = uploads[handlers[h].filename]])
    /\ op' = "upload_file"
    /\ ret' = Return("None")
    /\ source' = NoSource
    /\ UNCHANGED <<chain, validation_errors, file, appends, uploads>>
    /\ UNCHANGED route_fixed

\* add_block: previous_block = self.get_latest_block()
UploadTail(h) ==
    /\ handlers[h].pc = "get_latest_block"
    /\ IF Len(chain) = 0
       THEN /\ handlers' = Moved(h, [handlers[h] EXCEPT
                                       !.pc = "done", !.result = "IndexError"])
            /\ ret' = Raise("IndexError")
       ELSE /\ handlers' = Moved(h, [handlers[h] EXCEPT
                                       !.pc = "Block",
                                       !.previous_block = <<get_latest_block(chain)>>])
            /\ ret' = Return("None")
    /\ op' = "upload_file"
    /\ source' = NoSource
    /\ UNCHANGED <<chain, validation_errors, file, appends, uploads>>
    /\ UNCHANGED route_fixed

\* add_block: new_block = Block(len(self.chain), time.time(), file_data,
\* previous_block["hash"])
UploadBlock(h, t) ==
    /\ handlers[h].pc = "Block"
    /\ IF "hash" \notin DOMAIN handlers[h].previous_block[1]
       THEN /\ handlers' = Moved(h, [handlers[h] EXCEPT
                                       !.pc = "done", !.result = "KeyError"])
            /\ ret' = Raise("KeyError")
       ELSE /\ handlers' =
                 Moved(h, [handlers[h] EXCEPT
                             !.pc = "append",
                             !.new_block =
                                <<Block(Len(chain), t,
                                        [filename |-> handlers[h].filename,
                                         file_hash |-> handlers[h].file_hash],
                                        handlers[h].previous_block[1].hash)>>])
            /\ ret' = Return("None")
    /\ op' = "upload_file"
    /\ source' = NoSource
    /\ UNCHANGED <<chain, validation_errors, file, appends, uploads>>
    /\ UNCHANGED route_fixed

\* add_block: self.chain.append(new_block.__dict__)
UploadAppend(h) ==
    /\ handlers[h].pc = "append"
    /\ chain' = Append(chain, handlers[h].new_block[1])
    /\ handlers' = Moved(h, [handlers[h] EXCEPT !.pc = "is_chain_valid"])
    /\ op' = "upload_file"
    /\ ret' = ReturnBlock(handlers[h].new_block[1])
    /\ source' = NoSource
    /\ UNCHANGED <<validation_errors, file, appends, uploads>>
    /\ UNCHANGED route_fixed

\* if blockchain.is_chain_valid(): ... else: flash('Error: ...')
UploadValidate(h) ==
    /\ handlers[h].pc = "is_chain_valid"
    /\ validation_errors' = is_chain_valid(chain).errors
    /\ ret' = is_chain_valid(chain).ret
    /\ handlers' =
         Moved(h, IF is_chain_valid(chain).ret = Raise("KeyError")
                  THEN [handlers[h] EXCEPT !.pc = "done", !.result = "KeyError"]
                  ELSE [handlers[h] EXCEPT
                          !.pc = after_validate(Valid(chain)),
                          !.result = IF after_validate(Valid(chain)) = "done"
                                     THEN "error" ELSE ""])
    /\ op' = "upload_file"
    /\ source' = NoSource
    /\ UNCHANGED <<chain, file, appends, uploads>>
    /\ UNCHANGED route_fixed

\* blockchain.save_to_file(app.config['BLOCKCHAIN_FILE'])
UploadPersist(h) ==
    /\ handlers[h].pc = "save_to_file"
    /\ file' = Written(chain)
    /\ handlers' = Moved(h, [handlers[h] EXCEPT !.pc = "done", !.result = "ok"])
    /\ op' = "upload_file"
    /\ ret' = Return("None")
    /\ source' = NoSource
    /\ UNCHANGED <<chain, validation_errors, appends, uploads>>
    /\ UNCHANGED route_fixed

(* ------------------------ the download route --------------------------- *)

\* The loop of download_file taking the last block recorded for filename.
RECURSIVE FindBlock_latest(_, _, _)
FindBlock_latest(c, j, filename) ==
    IF j > Len(c)
    THEN 0
    ELSE IF "file_data" \notin DOMAIN c[j]
    THEN -1
    ELSE IF FindBlock_latest(c, j + 1, filename) # 0
    THEN FindBlock_latest(c, j + 1, filename)
    ELSE IF c[j].file_data.filename = filename
    THEN j
    ELSE 0

\* for block in blockchain.chain: ... break -- the position (from 1) of the
\* block the loop stops at from position j on, 0 when it finds none (file_block
\* stays None), -1 when a block without file_data makes it raise KeyError.
RECURSIVE FindBlock(_, _, _)
FindBlock(c, j, filename) ==
    IF j > Len(c)
    THEN 0
    ELSE IF "file_data" \notin DOMAIN c[j]
    THEN -1
    ELSE IF c[j].file_data.filename = filename
    THEN j
    ELSE FindBlock(c, j + 1, filename)

\* What download_file answers for filename, up being the upload folder.
download_file(c, up, filename) ==
    IF up[filename] = NoUpload
    THEN <<"return", "File not found", filename>>
    ELSE IF FindBlock(c, 1, filename) = -1
    THEN Raise("KeyError")
    ELSE IF /\ FindBlock(c, 1, filename) # 0
            /\ c[FindBlock(c, 1, filename)].file_data.file_hash = up[filename]
    THEN <<"return", "send_from_directory", filename>>
    ELSE <<"return", "File integrity check failed", filename>>

DownloadFile(filename) ==
    /\ ret' = download_file(chain, uploads, filename)
    /\ op' = "download_file"
    /\ source' = NoSource
    /\ UNCHANGED <<chain, validation_errors, file, appends, handlers, uploads>>
    /\ UNCHANGED route_fixed

(* --------------------- requests served one at a time ------------------- *)

\* blockchain.json at start-up: absent, an empty list, a saved chain, or a
\* lone block without hash.
StartFiles ==
    {NoFile, Written(<<>>), Written(DropField(BuiltChain(1), 1, "hash"))}
    \cup {Written(c) : c \in SavedChains}

\* The module has been imported: the ledger is built and loaded, the upload
\* folder is empty and no request has arrived.
InitUpload ==
    /\ \E f \in StartFiles, t \in Times :
          LET r == load_from_file(create_genesis_block(<<>>, t), f, <<>>, t)
          IN  /\ chain = r.chain
              /\ file = r.file
              /\ validation_errors = r.errors
              /\ source = f
    /\ op = "load_from_file"
    /\ prev_op = ""
    /\ ret = Return("None")
    /\ appends = 0
    /\ scen = -1
    /\ mutated = <<>>
    /\ handlers = [h \in Handlers |-> Idle]
    /\ uploads = [n \in Names |-> NoUpload]

NextUpload ==
    \/ \E n \in Names, d \in Contents : UploadSave(1, n, d)
    \/ UploadHash(1)
    \/ UploadTail(1)
    \/ \E t \in Times : UploadBlock(1, t)
    \/ UploadAppend(1)
    \/ UploadValidate(1)
    \/ UploadPersist(1)
    \/ ~InFlight(1) /\ \E n \in Names : DownloadFile(n)

SpecUpload == InitUpload /\ [][NextUpload]_vars

(* ------------------------ two requests at once ------------------------- *)

NextConcurrent ==
    \E h \in Handlers :
        \/ handlers[h].pc = "idle" /\ \E n \in Names, d \in Contents : UploadSave(h, n, d)
        \/ UploadHash(h)
        \/ UploadTail(h)
        \/ \E t \in Times : UploadBlock(h, t)
        \/ UploadAppend(h)
        \/ UploadValidate(h)
        \/ UploadPersist(h)

SpecConcurrent == InitUpload /\ [][NextConcurrent]_vars

(* ------------------------------- C18 ----------------------------------- *)

\* Handler h executes the statement at pc in this step.
Leaves(h, pc) == handlers[h].pc = pc /\ handlers'[h].pc # pc

\* C18: a handler of upload_file reaches save_to_file only when
\* is_chain_valid has returned True after its append, so every chain it
\* writes to the file is valid; when is_chain_valid returns False the request
\* ends with the file unchanged and the new block still in the chain in
\* memory.
C18_ValidateBeforeSave ==
    [][\A h \in Handlers :
          /\ (handlers'[h].pc = "save_to_file" /\ handlers[h].pc # "save_to_file")
                => /\ handlers[h].pc = "is_chain_valid"
                   /\ Valid(chain')
          /\ Leaves(h, "save_to_file")
                => /\ file' = Written(chain)
                   /\ Valid(json_load(file'.doc))
          /\ (Leaves(h, "is_chain_valid")
                 /\ is_chain_valid(chain).ret = Return("False"))
                => /\ handlers'[h].pc = "done"
                   /\ handlers'[h].result = "error"
                   /\ file' = file
                   /\ chain' = chain
                   /\ handlers[h].new_block[1] \in Range(chain')]_vars

\* C18 (amended): a handler of upload_file reaches save_to_file only when
\* is_chain_valid has returned True after its append; the chain it writes is
\* valid when no other handler was in flight during its request; when
\* is_chain_valid returns False the request ends with the file unchanged and
\* the new block still in the chain in memory.
C18_ValidateBeforeSaveAmended ==
    [][\A h \in Handlers :
          /\ (handlers'[h].pc = "save_to_file" /\ handlers[h].pc # "save_to_file")
                => /\ handlers[h].pc = "is_chain_valid"
                   /\ Valid(chain')
          /\ Leaves(h, "save_to_file")
                => /\ file' = Written(chain)
                   /\ handlers[h].alone
                         => /\ Valid(json_load(file'.doc))
                            /\ get_latest_block(json_load(file'.doc)) =
                                    handlers[h].new_block[1]
          /\ (Leaves(h, "is_chain_valid")
                 /\ is_chain_valid(chain).ret = Return("False"))
                => /\ handlers'[h].pc = "done"
                   /\ handlers'[h].result = "error"
                   /\ file' = file
                   /\ chain' = chain
                   /\ handlers[h].new_block[1] \in Range(chain')]_vars

\* A request served alone has ended on a failed validation: its block is the
\* tail of the chain in memory and is not in the file.
C18_Witness ==
    /\ op = "upload_file"
    /\ handlers[1].pc = "done"
    /\ handlers[1].alone
    /\ handlers[1].result = "error"
    /\ get_latest_block(chain) = handlers[1].new_block[1]
    /\ file.kind = "json"
    /\ handlers[1].new_block[1] \notin Range(json_load(file.doc))

(* ------------------------------- C19 ----------------------------------- *)

\* The first block of c recorded for filename records digest d.
Earliest(c, filename, d) ==
    \E j \in 1..Len(c) :
        /\ c[j].file_data = [filename |-> filename, file_hash |-> d]
        /\ \A k \in 1..(j - 1) : c[k].file_data.filename # filename

\* C19: download_file serves filename exactly when the file is in the upload
\* folder and the first block of the chain recorded for that name, not the
\* latest, records the digest the file has now; it changes neither the chain
\* nor validation_errors, as it never calls is_chain_valid.
C19_FirstMatch ==
    [][op' = "download_file"
          => /\ ret'[1] = "return"
             /\ ret'[2] = "send_from_directory"
                   <=> /\ uploads[ret'[3]] # NoUpload
                       /\ Earliest(chain, ret'[3], uploads[ret'[3]])
             /\ UNCHANGED <<chain, validation_errors, file, uploads>>]_vars

\* The file was uploaded twice with different contents and is in the folder
\* as last uploaded; its download has been refused.
C19_Witness ==
    /\ op = "download_file"
    /\ ret[2] = "File integrity check failed"
    /\ \E j, k \in 1..Len(chain) :
          /\ j < k
          /\ chain[j].file_data.filename = ret[3]
          /\ chain[k].file_data.filename = ret[3]
          /\ chain[k].file_data.file_hash = uploads[ret[3]]
          /\ chain[j].file_data.file_hash # uploads[ret[3]]
          /\ \A i \in (k + 1)..Len(chain) : chain[i].file_data.filename # ret[3]

(* ------------------------------- C15 ----------------------------------- *)

\* The block handler h appended is not in the file.
Lost(h) ==
    /\ handlers[h].pc = "done"
    /\ handlers[h].new_block # <<>>
    /\ handlers[h].new_block[1] \in Range(chain)
    /\ handlers[h].new_block[1] \notin Range(json_load(file.doc))

\* C15: a handler of upload_file whose request runs with no other handler in
\* flight, from a chain that validates, ends with its block in the file, and
\* stays there; two handlers interleaved can end with a block one of them
\* appended missing from the file, and then the chain in memory no longer
\* validates.
C15_LostUpdate ==
    /\ \A h \in Handlers :
          (/\ handlers[h].pc = "done"
           /\ handlers[h].alone
           /\ handlers[h].start_valid)
          => /\ handlers[h].result = "ok"
             /\ ~Lost(h)
    /\ (\E h \in Handlers : Lost(h)) => ~Valid(chain)

\* Both requests began on a chain that validates, for different files; both
\* have ended and the block of one of them is not in the file.
C15_Witness ==
    /\ \A h \in Handlers : /\ handlers[h].pc = "done"
                           /\ handlers[h].start_valid
                           /\ ~handlers[h].alone
    /\ handlers[1].filename # handlers[2].filename
    /\ \E h \in Handlers : Lost(h)

====
